---- MODULE Spec2Model ----
(***************************************************************************)
(* The constraint-extraction engine of protoc-gen-es (cel-parser.ts) and   *)
(* the type-shape generation that consumes it (protoc-gen-es-plugin.ts).   *)
(*                                                                         *)
(* Strings that the code inspects character by character (field names,     *)
(* dotted field paths) are sequences of one-character strings, so that     *)
(* snakeToCamel, includes("."), split(".") and the template literal that   *)
(* joins a path are computed and not assumed.  JavaScript arrays are       *)
(* sequences, plain objects used as maps are functions from names to       *)
(* values (key order is not modelled).                                     *)
(***************************************************************************)
EXTENDS Integers, Sequences, FiniteSets, TLC

(***************************************************************************)
(* Bounds of the model.                                                    *)
(***************************************************************************)
\* largest number of operands of a generated && or || node
MaxArgs == 3
\* largest number of cel rules attached to one message
MaxExprs == 2

(***************************************************************************)
(* JavaScript values.                                                      *)
(***************************************************************************)
\* the value null returned by extractFieldPath; no string is equal to it
null == <<"null">>
\* the value undefined returned by extractConstant
undefined == [undefined |-> TRUE]

DOT == "."
UNDERSCORE == "_"

LowerCase ==
  <<"a","b","c","d","e","f","g","h","i","j","k","l","m",
    "n","o","p","q","r","s","t","u","v","w","x","y","z">>
UpperCase ==
  <<"A","B","C","D","E","F","G","H","I","J","K","L","M",
    "N","O","P","Q","R","S","T","U","V","W","X","Y","Z">>

\* String.prototype.toUpperCase on one character
toUpperCase(c) ==
  IF \E k \in 1..Len(LowerCase) : LowerCase[k] = c
  THEN UpperCase[CHOOSE k \in 1..Len(LowerCase) : LowerCase[k] = c]
  ELSE c

\* Array.prototype.includes / String.prototype.includes for one element
includes(arr, x) == \E k \in 1..Len(arr) : arr[k] = x

\* [...new Set(arr)]: first occurrences, in order
RECURSIVE uniq(_)
uniq(arr) ==
  IF arr = <<>> THEN <<>>
  ELSE LET front == uniq(SubSeq(arr, 1, Len(arr) - 1))
           last  == arr[Len(arr)]
       IN IF includes(front, last) THEN front ELSE Append(front, last)

\* the elements of the arrays of seqs, in order (push(...array) in a loop)
RECURSIVE Concat(_)
Concat(seqs) ==
  IF seqs = <<>> THEN <<>> ELSE Head(seqs) \o Concat(Tail(seqs))

\* String.prototype.split("."): the pieces between the dots
RECURSIVE split(_)
split(str) ==
  IF ~includes(str, DOT) THEN <<str>>
  ELSE LET k == CHOOSE j \in 1..Len(str) :
                  str[j] = DOT /\ \A h \in 1..(j - 1) : str[h] # DOT
       IN <<SubSeq(str, 1, k - 1)>> \o split(SubSeq(str, k + 1, Len(str)))

\* util.ts snakeToCamel: every underscore is removed and the character
\* that follows it is upper-cased
RECURSIVE snakeToCamelFrom(_, _)
snakeToCamelFrom(str, capNext) ==
  IF str = <<>> THEN <<>>
  ELSE IF Head(str) = UNDERSCORE THEN snakeToCamelFrom(Tail(str), TRUE)
  ELSE <<IF capNext THEN toUpperCase(Head(str)) ELSE Head(str)>>
         \o snakeToCamelFrom(Tail(str), FALSE)

snakeToCamel(str) == snakeToCamelFrom(str, FALSE)

\* the names every plain object inherits from Object.prototype: a lookup
\* obj[name] of such a name finds the inherited member, which is truthy and
\* is no array
ObjectPrototypeKeys ==
  { <<"c","o","n","s","t","r","u","c","t","o","r">>,
    <<"t","o","S","t","r","i","n","g">>,
    <<"v","a","l","u","e","O","f">> }

(***************************************************************************)
(* Expression trees, as the external parser hands them over.               *)
(***************************************************************************)
Ident(name) == [case |-> "identExpr", name |-> name]
Select(operand, field) ==
  [case |-> "selectExpr", operand |-> operand, field |-> field]
\* a constant carries its value under the name of its constantKind case
StringValue(value) == [case |-> "constExpr", stringValue |-> value]
Int64Value(value)  == [case |-> "constExpr", int64Value |-> value]
Uint64Value(value) == [case |-> "constExpr", uint64Value |-> value]
DoubleValue(value) == [case |-> "constExpr", doubleValue |-> value]
BoolValue(value)   == [case |-> "constExpr", boolValue |-> value]
NullValue          == [case |-> "constExpr", nullValue |-> "NULL_VALUE"]
Call(function, args) ==
  [case |-> "callExpr", function |-> function, args |-> args]

(***************************************************************************)
(* cel-parser.ts: results.                                                 *)
(***************************************************************************)
EmptyMap == <<>>

createEmptyResult ==
  [ readOnlyFields    |-> <<>>,
    literalFields     |-> EmptyMap,
    unsupportedFields |-> <<>>,
    errors            |-> <<>>,
    nestedConstraints |-> EmptyMap,
    unionGroups       |-> <<>> ]

\* the outcome of a handler: the result as it left it, and whether it threw
Returned(result) == [threw |-> FALSE, result |-> result]
Thrown(result)   == [threw |-> TRUE, result |-> result]

\* isThisIdentifier gone wrong: the name of the identifier is not compared
isThisIdentifierAnyName(expr) == expr.case = "identExpr"

isThisIdentifier(expr) ==
  expr.case = "identExpr" /\ expr.name = <<"t","h","i","s">>

RECURSIVE extractFieldPath(_)
extractFieldPath(expr) ==
  IF expr.case = "identExpr" THEN null
  ELSE IF expr.case = "selectExpr" THEN
    LET operandPath == extractFieldPath(expr.operand)
    IN IF operandPath = null /\ isThisIdentifier(expr.operand) THEN expr.field
       ELSE IF operandPath # null /\ operandPath # <<>>
       THEN operandPath \o <<DOT>> \o expr.field
       ELSE null
  ELSE null

\* the integer high * 2^53 + low, 0 <= low < 2^53: the values of int64Value
\* and uint64Value are bigints, which go beyond the integers a number holds
\* exactly; a number that is an integer is written the same way
Wide(high, low) == [high |-> high, low |-> low]

\* Number(value) of a bigint below 2^54: exact below 2^53; from 2^53 on only
\* the even integers are numbers and an odd one goes to the neighbour with
\* the even significand
Number(value) ==
  IF value.high = 0 THEN value
  ELSE [value EXCEPT !.low = IF @ % 4 = 1 THEN @ - 1
                             ELSE IF @ % 4 = 3 THEN @ + 1
                             ELSE @]

\* extractConstant gone wrong: the null constant is a value as well
extractConstantNullToo(expr) ==
  IF expr.case # "constExpr" THEN undefined
  ELSE IF "stringValue" \in DOMAIN expr THEN [string |-> expr.stringValue]
  ELSE IF "int64Value" \in DOMAIN expr THEN [number |-> Number(expr.int64Value)]
  ELSE IF "uint64Value" \in DOMAIN expr
       THEN [number |-> Number(expr.uint64Value)]
  ELSE IF "doubleValue" \in DOMAIN expr THEN [number |-> expr.doubleValue]
  ELSE IF "boolValue" \in DOMAIN expr THEN [boolean |-> expr.boolValue]
  ELSE [object |-> null]

\* a LiteralValue carries its value under the name of its JavaScript type
extractConstant(expr) ==
  IF expr.case # "constExpr" THEN undefined
  ELSE IF "stringValue" \in DOMAIN expr THEN [string |-> expr.stringValue]
  ELSE IF "int64Value" \in DOMAIN expr THEN [number |-> Number(expr.int64Value)]
  ELSE IF "uint64Value" \in DOMAIN expr
       THEN [number |-> Number(expr.uint64Value)]
  ELSE IF "doubleValue" \in DOMAIN expr THEN [number |-> expr.doubleValue]
  ELSE IF "boolValue" \in DOMAIN expr THEN [boolean |-> expr.boolValue]
  ELSE undefined

\* obj[key] is truthy: an own entry (an array) or an inherited member
truthyAt(obj, key) == key \in DOMAIN obj \/ key \in ObjectPrototypeKeys

put(obj, key, value) == (key :> value) @@ obj

\* addReadOnlyField gone wrong: the child of a nested path is stored as
\* written
addReadOnlyFieldChildAsWritten(fieldPath, result) ==
  IF ~includes(fieldPath, DOT)
  THEN Returned([result EXCEPT
         !.readOnlyFields = Append(@, snakeToCamel(fieldPath))])
  ELSE
    LET parts == split(fieldPath)
        parentField == snakeToCamel(parts[1])
        childField  == parts[2]
        nested == IF ~truthyAt(result.nestedConstraints, parentField)
                  THEN put(result.nestedConstraints, parentField, <<>>)
                  ELSE result.nestedConstraints
    IN IF parentField \notin DOMAIN nested
       THEN Thrown(result)
       ELSE Returned([result EXCEPT !.nestedConstraints =
              put(nested, parentField,
                  Append(nested[parentField], childField))])

\* addReadOnlyField gone wrong: the child is pushed only to a parent that
\* was there already
addReadOnlyFieldPushElse(fieldPath, result) ==
  IF ~includes(fieldPath, DOT)
  THEN Returned([result EXCEPT
         !.readOnlyFields = Append(@, snakeToCamel(fieldPath))])
  ELSE
    LET parts == [k \in 1..Len(split(fieldPath)) |->
                    snakeToCamel(split(fieldPath)[k])]
    IN IF Len(parts) < 2 THEN Returned(result)
       ELSE
         LET parentField == parts[1]
             childField  == parts[2]
         IN IF ~truthyAt(result.nestedConstraints, parentField)
            THEN Returned([result EXCEPT !.nestedConstraints =
                   put(@, parentField, <<>>)])
            ELSE IF parentField \notin DOMAIN result.nestedConstraints
            THEN Thrown(result)
            ELSE Returned([result EXCEPT !.nestedConstraints =
                   put(@, parentField, Append(@[parentField], childField))])

addReadOnlyField(fieldPath, result) ==
  IF ~includes(fieldPath, DOT)
  THEN Returned([result EXCEPT
         !.readOnlyFields = Append(@, snakeToCamel(fieldPath))])
  ELSE
    LET parts == [k \in 1..Len(split(fieldPath)) |->
                    snakeToCamel(split(fieldPath)[k])]
    IN IF Len(parts) < 2 THEN Returned(result)
       ELSE
         LET parentField == parts[1]
             childField  == parts[2]
             nested == IF ~truthyAt(result.nestedConstraints, parentField)
                       THEN put(result.nestedConstraints, parentField, <<>>)
                       ELSE result.nestedConstraints
         IN IF parentField \notin DOMAIN nested
            THEN \* the inherited member has no push: TypeError
                 Thrown(result)
            ELSE Returned([result EXCEPT !.nestedConstraints =
                   put(nested, parentField,
                       Append(nested[parentField], childField))])

hasBranchConstraints(result) ==
  \/ Len(result.readOnlyFields) > 0
  \/ Cardinality(DOMAIN result.literalFields) > 0
  \/ Cardinality(DOMAIN result.nestedConstraints) > 0

\* deduplicateResult gone wrong: the children of the parents are left as
\* they are
deduplicateResultTopOnly(result) ==
  [result EXCEPT
     !.readOnlyFields = uniq(@),
     !.unsupportedFields = uniq(@)]

deduplicateResult(result) ==
  [result EXCEPT
     !.readOnlyFields = uniq(@),
     !.unsupportedFields = uniq(@),
     !.nestedConstraints =
        [parent \in DOMAIN @ |-> uniq(@[parent])]]


\* handleNegation gone wrong: the optimized form !this.field is not handled
handleNegationHasOnly(arg, result) ==
  IF arg = undefined THEN Returned(result)
  ELSE IF arg.case = "callExpr" /\ arg.function = "has" /\ Len(arg.args) = 1
  THEN LET field == extractFieldPath(arg.args[1])
       IN IF field # null /\ field # <<>>
          THEN addReadOnlyField(field, result)
          ELSE Returned(result)
  ELSE Returned(result)

\* handleNegation gone wrong: the name of the inner function is not compared
handleNegationAnyCall(arg, result) ==
  IF arg = undefined THEN Returned(result)
  ELSE IF arg.case = "callExpr" THEN
    IF Len(arg.args) = 1
    THEN LET field == extractFieldPath(arg.args[1])
         IN IF field # null /\ field # <<>>
            THEN addReadOnlyField(field, result)
            ELSE Returned(result)
    ELSE Returned(result)
  ELSE IF arg.case \in {"selectExpr", "identExpr"} THEN
    LET field == extractFieldPath(arg)
    IN IF field # null /\ field # <<>>
       THEN addReadOnlyField(field, result)
       ELSE Returned(result)
  ELSE Returned(result)

\* handleNegation; arg is undefined when the call has no argument
handleNegation(arg, result) ==
  IF arg = undefined THEN Returned(result)
  ELSE IF arg.case = "callExpr" THEN
    IF arg.function = "has" /\ Len(arg.args) = 1
    THEN LET field == extractFieldPath(arg.args[1])
         IN IF field # null /\ field # <<>>
            THEN addReadOnlyField(field, result)
            ELSE Returned(result)
    ELSE Returned(result)
  ELSE IF arg.case \in {"selectExpr", "identExpr"} THEN
    LET field == extractFieldPath(arg)
    IN IF field # null /\ field # <<>>
       THEN addReadOnlyField(field, result)
       ELSE Returned(result)
  ELSE Returned(result)

\* processEqualityPair gone wrong: a literal already recorded for the field
\* is kept
processEqualityPairKeepFirst(fieldExpr, valueExpr, result) ==
  LET constantValue == extractConstant(valueExpr)
      field == extractFieldPath(fieldExpr)
  IN IF constantValue = undefined THEN Returned(result)
     ELSE IF field = null \/ field = <<>> THEN Returned(result)
     ELSE IF ~includes(field, DOT)
     THEN (IF snakeToCamel(field) \in DOMAIN result.literalFields
           THEN Returned(result)
           ELSE Returned([result EXCEPT !.literalFields =
                  put(@, snakeToCamel(field), constantValue)]))
     ELSE addReadOnlyField(field, result)

processEqualityPair(fieldExpr, valueExpr, result) ==
  LET constantValue == extractConstant(valueExpr)
      field == extractFieldPath(fieldExpr)
  IN IF constantValue = undefined THEN Returned(result)
     ELSE IF field = null \/ field = <<>> THEN Returned(result)
     ELSE IF ~includes(field, DOT)
     THEN Returned([result EXCEPT !.literalFields =
            put(@, snakeToCamel(field), constantValue)])
     ELSE addReadOnlyField(field, result)

\* handleEquality gone wrong: only field == constant is tried
handleEqualityFieldFirst(args, result) ==
  IF Len(args) # 2 THEN Returned(result)
  ELSE processEqualityPair(args[1], args[2], result)

handleEquality(args, result) ==
  IF Len(args) # 2 THEN Returned(result)
  ELSE LET first == processEqualityPair(args[1], args[2], result)
       IN IF first.threw THEN first
          ELSE processEqualityPair(args[2], args[1], first.result)

\* the branch handleOr keeps of a branchResult
UnionBranch(branchResult) ==
  [ readOnlyFields    |-> branchResult.readOnlyFields,
    literalFields     |-> branchResult.literalFields,
    nestedConstraints |-> branchResult.nestedConstraints ]

(***************************************************************************)
(* The expressions and messages the model analyses.                        *)
(***************************************************************************)
this == Ident(<<"t","h","i","s">>)
Top(f) == Select(this, f)
Nested(parent, child) == Select(Select(this, parent), child)
Not(x) == Call("!_", <<x>>)
NotHas(x) == Call("!_", <<Call("has", <<x>>)>>)
Eq(x, y) == Call("_==_", <<x, y>>)
And(args) == Call("_&&_", args)
Or(args) == Call("_||_", args)

EmptyString == StringValue("")
Zero == Int64Value(Wide(0, 0))

\* sequences over S of every length from lo to hi
SeqsOf(S, lo, hi) == UNION { [1..n -> S] : n \in lo..hi }

\* single assertions of every recognised shape, and shapes that are ignored
Assertions ==
  { Not(Top(<<"a">>)),
    NotHas(Top(<<"a">>)),
    NotHas(Top(<<"f","_","n">>)),
    Not(Nested(<<"p">>, <<"c">>)),
    NotHas(Nested(<<"p","_","q">>, <<"c","_","d">>)),
    NotHas(Select(Nested(<<"p">>, <<"c">>), <<"g">>)),
    Eq(Top(<<"a">>), EmptyString),
    Eq(Top(<<"a">>), Zero),
    Eq(Top(<<"a">>), Uint64Value(Wide(0, 0))),
    Eq(Top(<<"a">>), DoubleValue(Wide(0, 0))),
    Eq(Top(<<"a">>), BoolValue(FALSE)),
    Eq(Top(<<"a">>), BoolValue(TRUE)),
    Eq(Top(<<"a">>), StringValue("value")),
    Eq(Top(<<"a">>), Int64Value(Wide(0, 42))),
    Eq(Top(<<"a">>), Int64Value(Wide(1, 1))),
    Eq(Top(<<"a">>), Uint64Value(Wide(1, 2))),
    Eq(StringValue("literal"), Top(<<"a">>)),
    Eq(Top(<<"f","_","n">>), EmptyString),
    Eq(Nested(<<"p">>, <<"c">>), EmptyString),
    Eq(Zero, Nested(<<"p">>, <<"c">>)),
    Eq(Select(Nested(<<"p">>, <<"c">>), <<"g">>), EmptyString),
    Eq(Nested(<<"c","o","n","s","t","r","u","c","t","o","r">>, <<"c">>),
       EmptyString),
    NotHas(Nested(<<"v","a","l","u","e","_","o","f">>, <<"c">>)),
    Eq(Top(<<"a">>), NullValue),
    Eq(Top(<<"a">>), Top(<<"b">>)),
    Eq(Ident(<<"a">>), EmptyString),
    Eq(Select(Ident(<<"x">>), <<"a">>), EmptyString),
    Call("_==_", <<Top(<<"a">>)>>),
    Call("_>_", <<Top(<<"a">>), Zero>>),
    Call("!_", <<>>),
    Not(Ident(<<"a">>)),
    Not(this),
    Not(Eq(Top(<<"a">>), EmptyString)),
    Not(Not(Top(<<"a">>))),
    Not(EmptyString),
    Call("has", <<Top(<<"a">>)>>),
    EmptyString,
    Top(<<"a">>),
    this }

\* the assertions compound expressions are built from: a presence negation
\* and two literals of top-level fields, a nested path, an ignored shape,
\* and a nested path below a name that Object.prototype defines
Core ==
  { Not(Top(<<"a">>)),
    Eq(Top(<<"a">>), EmptyString),
    Eq(Zero, Top(<<"b">>)),
    Eq(Nested(<<"p">>, <<"c">>), EmptyString),
    Call("_>_", <<Top(<<"a">>), Zero>>),
    Eq(Nested(<<"c","o","n","s","t","r","u","c","t","o","r">>, <<"c">>),
       EmptyString) }

Small ==
  { Not(Top(<<"a">>)),
    Eq(Top(<<"b">>), Zero),
    NotHas(Nested(<<"p">>, <<"d">>)) }

Compound(S, lo, hi) ==
  { And(args) : args \in SeqsOf(S, lo, hi) }
    \cup { Or(args) : args \in SeqsOf(S, lo, hi) }

\* one operator over up to MaxArgs assertions
Flat == Compound(Core, 2, MaxArgs)
\* two operators deep
Deep == Compound(Core \cup Compound(Small, 2, 2), 2, 2)
\* three operators deep
Deeper ==
  { Or(<<t, Eq(Top(<<"a">>), EmptyString)>>) :
      t \in Compound(Small \cup Compound(Small, 2, 2), 2, 2) }

\* assertions on names with underscores, below && and ||
Snake ==
  { Or(<<Not(Top(<<"f","_","n">>)),
         Eq(Nested(<<"p","_","q">>, <<"c","_","d">>), EmptyString),
         Eq(Top(<<"g","_","h","_","i">>), Zero)>>),
    And(<<NotHas(Top(<<"f","_","n">>)),
          Eq(Top(<<"g","_","h","_","i">>), EmptyString),
          Or(<<NotHas(Nested(<<"p","_","q">>, <<"c","_","d">>)),
               Eq(StringValue("value"), Top(<<"f","_","n">>))>>)>>) }

\* conjunctions of literal assertions on one field
Rewrites ==
  { And(args) :
      args \in SeqsOf({ Eq(Top(<<"a">>), EmptyString),
                        Eq(Top(<<"a">>), Zero),
                        Eq(Top(<<"a">>), StringValue("value")),
                        Eq(BoolValue(FALSE), Top(<<"a">>)) }, 2, MaxArgs) }

\* conjunctions in which read-only names and nested children come again
Repeats ==
  { And(args) :
      args \in SeqsOf({ Not(Top(<<"a">>)),
                        NotHas(Top(<<"b">>)),
                        Eq(Nested(<<"p">>, <<"c">>), EmptyString),
                        NotHas(Nested(<<"p">>, <<"d">>)) }, 2, MaxArgs) }

\* assertions on selections that are not rooted at this: on another
\* identifier, two deep, on a constant, on a call, and on this selected
\* from this
Unrooted ==
  LET nodes == { Select(Select(Ident(<<"x">>), <<"a">>), <<"b">>),
                 Select(EmptyString, <<"a">>),
                 Select(Call("f", <<>>), <<"a">>),
                 Select(Select(Call("f", <<>>), <<"a">>), <<"b">>),
                 Select(this, <<"t","h","i","s">>) }
  IN { Not(x) : x \in nodes }
       \cup { NotHas(x) : x \in nodes }
       \cup { Eq(x, EmptyString) : x \in nodes }

\* negations of operands that are neither a presence check nor a path:
\* of && and ||, of another function, of has with no, two or an
\* unresolvable argument; alone and beside an assertion below && and ||
Negated ==
  LET operands == { And(<<Not(Top(<<"a">>)), Eq(Top(<<"b">>), Zero)>>),
                    Or(<<Not(Top(<<"a">>)), Eq(Top(<<"b">>), Zero)>>),
                    Eq(Nested(<<"p">>, <<"c">>), EmptyString),
                    NotHas(Top(<<"a">>)),
                    Call("size", <<Top(<<"a">>)>>),
                    Call("has", <<>>),
                    Call("has", <<Top(<<"a">>), Top(<<"b">>)>>),
                    Call("has", <<Ident(<<"a">>)>>),
                    Call("has", <<Not(Top(<<"a">>))>>) }
  IN { Not(x) : x \in operands }
       \cup { And(<<Not(x), Not(Top(<<"b">>))>>) : x \in operands }
       \cup { Or(<<Not(Top(<<"b">>)), Not(x)>>) : x \in operands }

\* three operators deep below a conjunction
Conjoined ==
  { And(<<t, Eq(Top(<<"a">>), EmptyString)>>) :
      t \in Compound(Small \cup Compound(Small, 2, 2), 2, 2) }

Trees ==
  Assertions \cup Flat \cup Deep \cup Deeper \cup Snake \cup Rewrites
    \cup Repeats \cup Unrooted \cup Negated \cup Conjoined

\* what parse(celExpression) makes of a rule's expression text: the text is
\* empty, is blank, is rejected, yields no expression node, or yields a tree
Expression(t) == [kind |-> "tree", expr |-> t]
NoTree == { [kind |-> k] : k \in {"empty", "blank", "syntaxError", "noExpr"} }

Field(name) == [kind |-> "field", localName |-> name]
Oneof(name) == [kind |-> "oneof", localName |-> name]

DefaultMembers == <<Field(<<"a">>), Field(<<"b">>), Field(<<"p">>)>>

MemberLists ==
  { DefaultMembers,
    <<Field(<<"a">>), Oneof(<<"b">>), Field(<<"p">>)>>,
    <<Oneof(<<"p">>), Field(<<"b">>), Field(<<"f","N">>)>> }

\* the rules of the messages whose shape generation is explored
Rules ==
  { Expression(Not(Top(<<"a">>))),
    Expression(NotHas(Top(<<"b">>))),
    Expression(And(<<Not(Top(<<"a">>)),
                     Eq(Nested(<<"p">>, <<"c">>), EmptyString)>>)),
    Expression(Or(<<Not(Top(<<"a">>)), Eq(Top(<<"b">>), Zero)>>)),
    Expression(Or(<<NotHas(Nested(<<"p">>, <<"d">>)),
                    Eq(Nested(<<"p">>, <<"e">>), EmptyString),
                    Not(Top(<<"b">>))>>)),
    Expression(And(<<Not(Top(<<"a">>)),
                     Eq(Nested(<<"v","a","l","u","e","_","o","f">>, <<"c">>),
                        Zero)>>)),
    [kind |-> "syntaxError"] }

\* field paths rooted at this: one, two and three segments, with and without
\* underscores, and below a name that Object.prototype defines
Paths ==
  { Top(<<"a">>),
    Top(<<"f","_","n">>),
    Nested(<<"p">>, <<"c">>),
    Nested(<<"p","_","q">>, <<"c","_","d">>),
    Select(Nested(<<"p">>, <<"c">>), <<"g">>),
    Nested(<<"c","o","n","s","t","r","u","c","t","o","r">>, <<"c">>) }

\* operands of an equality: paths, constants, and nodes that are neither
Operands ==
  Paths \cup
  { EmptyString, Zero, BoolValue(FALSE), StringValue("value"), NullValue,
    Ident(<<"a">>), Top(<<"b">>) }

\* facts a result holds before an assertion is visited into it
Starts ==
  { Eq(Top(<<"a">>), StringValue("value")),
    Not(Top(<<"a">>)),
    NotHas(Nested(<<"p">>, <<"c">>)) }

\* two expressions that are compared with each other: !has(p) and !p, and
\* x == y and y == x, alone and after another assertion
Pairs ==
  { <<NotHas(x), Not(x)>> : x \in Paths }
  \cup { <<Eq(x, y), Eq(y, x)>> : x, y \in Operands }
  \cup { <<And(<<t, Eq(x, y)>>), And(<<t, Eq(y, x)>>)>> :
           t \in Starts, x \in Paths, y \in Operands }

\* a message with rules has the buf.validate.message option set
Messages ==
  { [ members |-> DefaultMembers,
      cel |-> <<Expression(pair[1]), Expression(pair[2])>>,
      needsCustomValidType |-> FALSE, hasBufValidateOptions |-> TRUE ] :
      pair \in Pairs }
  \cup
  { [ members |-> DefaultMembers, cel |-> <<e>>,
      needsCustomValidType |-> FALSE, hasBufValidateOptions |-> TRUE ] :
      e \in NoTree \cup { Expression(t) : t \in Trees } }
  \cup
  { msg \in
      { [ members |-> m, cel |-> c,
          needsCustomValidType |-> v, hasBufValidateOptions |-> o ] :
          m \in MemberLists, c \in SeqsOf(Rules, 0, MaxExprs),
          v \in BOOLEAN, o \in BOOLEAN } :
      Len(msg.cel) > 0 => msg.hasBufValidateOptions }

(***************************************************************************)
(* State.                                                                  *)
(***************************************************************************)
VARIABLES
  message,            \* the message descriptor being generated
  pc,                 \* where the generation of the message stands
  rule,               \* index of the rule whose expression is analysed
  results,            \* what parseCELExpression returned for the rules so far
  stack,              \* active calls of visitExpr, handleAnd and handleOr
  scopes,             \* result of parseCELExpression, then the branchResult
                      \* of every active handleOr, innermost last
  generator,          \* the shape function that runs
  nestedConstraints,  \* its local nestedConstraints
  readOnlyFields,     \* its local readOnlyFields
  unionGroups,        \* its local unionGroups
  i,                  \* its loop index over unionGroups
  printed,            \* the alternatives printed so far
  aliased             \* the valid type was printed as an alias of the shape

vars == <<message, pc, rule, results, stack, scopes, generator,
          nestedConstraints, readOnlyFields, unionGroups, i, printed, aliased>>

analysis == <<stack, scopes>>
generation == <<generator, nestedConstraints, readOnlyFields, unionGroups,
                i, printed, aliased>>

Init ==
  /\ message \in Messages
  /\ pc = "rules"
  /\ rule = 1
  /\ results = <<>>
  /\ stack = <<>>
  /\ scopes = <<>>
  /\ generator = "none"
  /\ nestedConstraints = EmptyMap
  /\ readOnlyFields = <<>>
  /\ unionGroups = <<>>
  /\ i = 0
  /\ printed = <<>>
  /\ aliased = FALSE

(***************************************************************************)
(* cel-parser.ts: parseCELExpression, one action per step.                 *)
(***************************************************************************)
AtRule(kind) ==
  /\ pc = "rules"
  /\ rule <= Len(message.cel)
  /\ message.cel[rule].kind = kind

\* parseCELExpression returns result to the getter that called it
Return(result) ==
  /\ results' = Append(results, result)
  /\ rule' = rule + 1
  /\ pc' = "rules"
  /\ stack' = <<>>
  /\ scopes' = <<>>

\* the getters skip a rule whose expression is the empty string
SkipEmptyExpression ==
  /\ AtRule("empty")
  /\ rule' = rule + 1
  /\ UNCHANGED <<message, pc, results, analysis, generation>>

\* celExpression.trim() is empty
ReturnBlank ==
  /\ AtRule("blank")
  /\ Return(createEmptyResult)
  /\ UNCHANGED <<message, generation>>

\* parse(celExpression) throws
ParseThrows ==
  /\ AtRule("syntaxError")
  /\ pc' = "catch"
  /\ scopes' = <<createEmptyResult>>
  /\ UNCHANGED <<message, rule, results, stack, generation>>

\* parse(celExpression) yields no expression node
NoExpression ==
  /\ AtRule("noExpr")
  /\ Return([createEmptyResult EXCEPT
       !.errors = Append(@, [ text |-> "No expression found in CEL: ",
                              celExpression |-> message.cel[rule] ])])
  /\ UNCHANGED <<message, generation>>

VisitFrame(expr) == [fn |-> "visitExpr", expr |-> expr]
AndFrame(args, idx) == [fn |-> "handleAnd", args |-> args, idx |-> idx]
OrFrame(args, idx, branches, inBranch) ==
  [fn |-> "handleOr", args |-> args, idx |-> idx, branches |-> branches,
   inBranch |-> inBranch]

\* parse(celExpression) yields a tree: visitExpr(parsedExpr.expr, result)
ParseOk ==
  /\ AtRule("tree")
  /\ pc' = "visit"
  /\ scopes' = <<createEmptyResult>>
  /\ stack' = <<VisitFrame(message.cel[rule].expr)>>
  /\ UNCHANGED <<message, rule, results, generation>>

Top1(seq) == seq[Len(seq)]
Pop(seq) == SubSeq(seq, 1, Len(seq) - 1)
ReplaceTop(seq, x) == [seq EXCEPT ![Len(seq)] = x]

Running(fn) ==
  /\ pc = "visit"
  /\ stack # <<>>
  /\ Top1(stack).fn = fn

Visiting(function) ==
  /\ Running("visitExpr")
  /\ Top1(stack).expr.case = "callExpr"
  /\ Top1(stack).expr.function = function

\* a handler returned or threw
Handled(outcome) ==
  IF outcome.threw
  THEN /\ pc' = "catch"
       /\ UNCHANGED <<stack, scopes>>
  ELSE /\ pc' = pc
       /\ stack' = Pop(stack)
       /\ scopes' = ReplaceTop(scopes, outcome.result)

\* visitExpr: not a call, or a call of a function without a handler
VisitIgnored ==
  /\ Running("visitExpr")
  /\ IF Top1(stack).expr.case = "callExpr"
     THEN Top1(stack).expr.function \notin {"!_", "_==_", "_&&_", "_||_"}
     ELSE TRUE
  /\ stack' = Pop(stack)
  /\ UNCHANGED <<message, pc, rule, results, scopes, generation>>

VisitNegation ==
  /\ Visiting("!_")
  /\ LET args == Top1(stack).expr.args
     IN Handled(handleNegation(IF Len(args) > 0 THEN args[1] ELSE undefined,
                               Top1(scopes)))
  /\ UNCHANGED <<message, rule, results, generation>>

VisitEquality ==
  /\ Visiting("_==_")
  /\ Handled(handleEquality(Top1(stack).expr.args, Top1(scopes)))
  /\ UNCHANGED <<message, rule, results, generation>>

VisitAnd ==
  /\ Visiting("_&&_")
  /\ stack' = ReplaceTop(stack, AndFrame(Top1(stack).expr.args, 1))
  /\ UNCHANGED <<message, pc, rule, results, scopes, generation>>

VisitOr ==
  /\ Visiting("_||_")
  /\ stack' = ReplaceTop(stack, OrFrame(Top1(stack).expr.args, 1, <<>>, FALSE))
  /\ UNCHANGED <<message, pc, rule, results, scopes, generation>>

\* handleAndVisit gone wrong: the operands are taken from the last to the first
handleAndVisitLastFirst(frame) ==
  <<AndFrame(frame.args, frame.idx + 1),
    VisitFrame(frame.args[Len(frame.args) - frame.idx + 1])>>

\* handleAnd: the next operand is visited into the same result
handleAndVisit(frame) ==
  <<AndFrame(frame.args, frame.idx + 1), VisitFrame(frame.args[frame.idx])>>

HandleAndNext ==
  /\ Running("handleAnd")
  /\ Top1(stack).idx <= Len(Top1(stack).args)
  /\ stack' = Pop(stack) \o handleAndVisit(Top1(stack))
  /\ UNCHANGED <<message, pc, rule, results, scopes, generation>>

HandleAndReturn ==
  /\ Running("handleAnd")
  /\ Top1(stack).idx > Len(Top1(stack).args)
  /\ stack' = Pop(stack)
  /\ UNCHANGED <<message, pc, rule, results, scopes, generation>>

\* handleOr: the next operand is visited into a new branchResult
HandleOrBranch ==
  /\ Running("handleOr")
  /\ ~Top1(stack).inBranch
  /\ Top1(stack).idx <= Len(Top1(stack).args)
  /\ LET frame == Top1(stack)
     IN stack' = Pop(stack) \o
          << OrFrame(frame.args, frame.idx, frame.branches, TRUE),
             VisitFrame(frame.args[frame.idx]) >>
  /\ scopes' = Append(scopes, createEmptyResult)
  /\ UNCHANGED <<message, pc, rule, results, generation>>

\* handleOrCollect gone wrong: the branch of an empty branchResult is kept
handleOrCollectAll(branches, branchResult) ==
  Append(branches, UnionBranch(branchResult))

\* handleOrCollect gone wrong: a branch equal to an earlier one is dropped
handleOrCollectOnce(branches, branchResult) ==
  IF hasBranchConstraints(branchResult)
       /\ ~includes(branches, UnionBranch(branchResult))
  THEN Append(branches, UnionBranch(branchResult))
  ELSE branches

\* handleOrCollect gone wrong: the unionGroups of branchResult are passed on
handleOrCollectFlattened(branches, branchResult) ==
  (IF hasBranchConstraints(branchResult)
   THEN Append(branches, UnionBranch(branchResult))
   ELSE branches) \o branchResult.unionGroups

\* handleOr, after visitExpr(arg, branchResult): the branches with the
\* branch of branchResult, if it is to be kept
handleOrCollect(branches, branchResult) ==
  IF hasBranchConstraints(branchResult)
  THEN Append(branches, UnionBranch(branchResult))
  ELSE branches

HandleOrCollect ==
  /\ Running("handleOr")
  /\ Top1(stack).inBranch
  /\ LET frame == Top1(stack)
         branchResult == Top1(scopes)
         enclosing == scopes[Len(scopes) - 1]
     IN /\ stack' = ReplaceTop(stack,
             OrFrame(frame.args, frame.idx + 1,
                     handleOrCollect(frame.branches, branchResult), FALSE))
        /\ scopes' = ReplaceTop(Pop(scopes),
             [enclosing EXCEPT !.errors = @ \o branchResult.errors])
  /\ UNCHANGED <<message, pc, rule, results, generation>>

\* handleOrPush gone wrong: the read-only fields of the branches are added to
\* the result as well
handleOrPushWithFields(result, branches) ==
  [result EXCEPT
     !.unionGroups = @ \o branches,
     !.readOnlyFields =
        @ \o Concat([k \in 1..Len(branches) |-> branches[k].readOnlyFields])]

\* handleOrPush gone wrong: the branches are put before those of the result
handleOrPushFront(result, branches) ==
  [result EXCEPT !.unionGroups = branches \o @]

\* handleOrPush gone wrong: the branches take the place of those of the
\* result
handleOrPushReplace(result, branches) ==
  [result EXCEPT !.unionGroups = branches]

\* handleOr: result.unionGroups.push(...branches)
handleOrPush(result, branches) ==
  [result EXCEPT !.unionGroups = @ \o branches]

HandleOrReturn ==
  /\ Running("handleOr")
  /\ ~Top1(stack).inBranch
  /\ Top1(stack).idx > Len(Top1(stack).args)
  /\ scopes' = ReplaceTop(scopes, handleOrPush(Top1(scopes), Top1(stack).branches))
  /\ stack' = Pop(stack)
  /\ UNCHANGED <<message, pc, rule, results, generation>>

\* visitExpr returned to parseCELExpression: deduplicateResult, return
Deduplicate ==
  /\ pc = "visit"
  /\ stack = <<>>
  /\ Return(deduplicateResult(scopes[1]))
  /\ UNCHANGED <<message, generation>>

\* the catch block of parseCELExpression
\* the text of the error names the expression and what was thrown
catch(result, celExpression, error) ==
  [result EXCEPT !.errors =
     Append(@, [ text |-> "Failed to parse CEL expression ",
                 celExpression |-> celExpression,
                 message |-> error ])]

\* what was thrown: by parse (no visit has begun) or by the push of
\* addReadOnlyField (the visit that threw is still on the stack)
Catch ==
  /\ pc = "catch"
  /\ Return(catch(scopes[1], message.cel[rule],
                  IF stack = <<>> THEN "SyntaxError"
                  ELSE "TypeError: push is not a function"))
  /\ UNCHANGED <<message, generation>>

(***************************************************************************)
(* protoc-gen-es-plugin.ts: the getters and the two shape generators.      *)
(* parseCELExpression is a function of the expression alone, so the value  *)
(* each getter obtains for a rule is the one kept in results.              *)
(***************************************************************************)
getReadOnlyFields(parsed) ==
  LET allReadOnlyFields ==
        Concat([k \in 1..Len(parsed) |-> parsed[k].readOnlyFields])
      uniqueFields == uniq(allReadOnlyFields)
  IN [k \in 1..Len(uniqueFields) |->
        IF includes(uniqueFields[k], DOT) THEN uniqueFields[k]
        ELSE snakeToCamel(uniqueFields[k])]

getUnionGroups(parsed) ==
  Concat([k \in 1..Len(parsed) |-> parsed[k].unionGroups])

getNestedReadOnlyFields(parsed) ==
  LET keys == UNION { DOMAIN parsed[k].nestedConstraints : k \in 1..Len(parsed) }
  IN [key \in keys |->
        uniq(Concat([k \in 1..Len(parsed) |->
          IF key \in DOMAIN parsed[k].nestedConstraints
          THEN parsed[k].nestedConstraints[key]
          ELSE <<>>]))]

\* the loop that merges group.nestedConstraints into the spread copy of
\* nestedConstraints: the copy shares the arrays of nestedConstraints, so
\* the push on a key of both also lands in nestedConstraints[key]
pushedNestedConstraints(nested, group) ==
  [key \in DOMAIN nested |->
     IF key \in DOMAIN group.nestedConstraints
     THEN nested[key] \o group.nestedConstraints[key]
     ELSE nested[key]]

mergedNestedConstraints(nested, group) ==
  [key \in DOMAIN nested \cup DOMAIN group.nestedConstraints |->
     IF key \in DOMAIN group.nestedConstraints
     THEN uniq((IF key \in DOMAIN nested THEN nested[key] ELSE <<>>)
               \o group.nestedConstraints[key])
     ELSE nested[key]]

\* applyNestedConstraints: the child names the field's type omits
applyNestedConstraints(fieldName, nested) ==
  IF fieldName \in DOMAIN nested /\ Len(nested[fieldName]) > 0
  THEN nested[fieldName]
  ELSE <<>>

\* generateMessageShapeMember: what is printed for a member
generateMessageShapeMember(member, nested) ==
  IF member.kind = "oneof"
  THEN [localName |-> member.localName, kind |-> "oneof", omit |-> <<>>]
  ELSE [localName |-> member.localName, kind |-> "field",
        omit |-> applyNestedConstraints(member.localName, nested)]

\* skipped gone wrong: only the first read-only name is compared
skippedFirstOnly(member, readOnly) ==
  member.kind = "field" /\ readOnly # <<>> /\ readOnly[1] = member.localName

\* skipped gone wrong: the kind of the member is not looked at
skippedAnyKind(member, readOnly) == includes(readOnly, member.localName)

\* the test that makes the member loops skip a member
skipped(member, readOnly) ==
  member.kind = "field" /\ includes(readOnly, member.localName)

\* the member loop of one alternative
printMembers(members, readOnly, nested) ==
  LET kept == SelectSeq(members, LAMBDA member : ~skipped(member, readOnly))
  IN [k \in 1..Len(kept) |-> generateMessageShapeMember(kept[k], nested)]

Generate(fn) ==
  /\ pc = "rules"
  /\ rule > Len(message.cel)
  /\ generator' = fn
  /\ nestedConstraints' = getNestedReadOnlyFields(results)
  /\ readOnlyFields' = getReadOnlyFields(results)
  /\ unionGroups' = getUnionGroups(results)
  /\ i' = 1
  /\ pc' = IF Len(getUnionGroups(results)) > 0 THEN "union" ELSE "standard"
  /\ UNCHANGED <<message, rule, results, analysis, printed, aliased>>

GenerateMessageShape == Generate("generateMessageShape")

GenerateMessageValidShape ==
  /\ message.needsCustomValidType \/ message.hasBufValidateOptions
  /\ Generate("generateMessageValidShape")

\* generateMessageValidShape prints the valid type as the shape type
GenerateValidAlias ==
  /\ pc = "rules"
  /\ rule > Len(message.cel)
  /\ ~message.needsCustomValidType
  /\ ~message.hasBufValidateOptions
  /\ generator' = "generateMessageValidShape"
  /\ aliased' = TRUE
  /\ pc' = "done"
  /\ UNCHANGED <<message, rule, results, analysis, nestedConstraints,
                 readOnlyFields, unionGroups, i, printed>>

\* one round of the loop over unionGroups
PrintBranch ==
  /\ pc = "union"
  /\ i <= Len(unionGroups)
  /\ LET group == unionGroups[i]
     IN /\ printed' = Append(printed,
             printMembers(message.members,
                          readOnlyFields \o group.readOnlyFields,
                          mergedNestedConstraints(nestedConstraints, group)))
        /\ nestedConstraints' = pushedNestedConstraints(nestedConstraints, group)
  /\ i' = i + 1
  /\ UNCHANGED <<message, pc, rule, results, analysis, generator,
                 readOnlyFields, unionGroups, aliased>>

PrintUnionDone ==
  /\ pc = "union"
  /\ i > Len(unionGroups)
  /\ pc' = "done"
  /\ UNCHANGED <<message, rule, results, analysis, generation>>

\* the standard case without union groups
PrintStandard ==
  /\ pc = "standard"
  /\ printed' = Append(printed,
       printMembers(message.members, readOnlyFields, nestedConstraints))
  /\ pc' = "done"
  /\ UNCHANGED <<message, rule, results, analysis, generator,
                 nestedConstraints, readOnlyFields, unionGroups, i, aliased>>

Next ==
  \/ SkipEmptyExpression
  \/ ReturnBlank
  \/ ParseThrows
  \/ NoExpression
  \/ ParseOk
  \/ VisitIgnored
  \/ VisitNegation
  \/ VisitEquality
  \/ VisitAnd
  \/ VisitOr
  \/ HandleAndNext
  \/ HandleAndReturn
  \/ HandleOrBranch
  \/ HandleOrCollect
  \/ HandleOrReturn
  \/ Deduplicate
  \/ Catch
  \/ GenerateMessageShape
  \/ GenerateMessageValidShape
  \/ GenerateValidAlias
  \/ PrintBranch
  \/ PrintUnionDone
  \/ PrintStandard

Spec == Init /\ [][Next]_vars

(***************************************************************************)
(* Vocabulary of the properties.                                           *)
(***************************************************************************)
IsAnd(e) == e.case = "callExpr" /\ e.function = "_&&_"
IsOr(e) == e.case = "callExpr" /\ e.function = "_||_"
IsLeaf(e) == ~IsAnd(e) /\ ~IsOr(e)

\* the message has one rule, a tree, and its analysis has returned
Analysed ==
  /\ Len(message.cel) = 1
  /\ message.cel[1].kind = "tree"
  /\ Len(results) = 1
Root == message.cel[1].expr

Elements(seq) == { seq[k] : k \in 1..Len(seq) }

\* no name is both read-only and literal
Exclusive(scope) ==
  Elements(scope.readOnlyFields) \cap DOMAIN scope.literalFields = {}

EmptyOnAll(scope) ==
  /\ scope.readOnlyFields = <<>>
  /\ DOMAIN scope.literalFields = {}
  /\ DOMAIN scope.nestedConstraints = {}

\* what visiting a node that is no && and no || does to a result
LeafOutcome(e, result) ==
  IF e.case # "callExpr" THEN Returned(result)
  ELSE IF e.function = "!_"
  THEN handleNegation(IF Len(e.args) > 0 THEN e.args[1] ELSE undefined, result)
  ELSE IF e.function = "_==_" THEN handleEquality(e.args, result)
  ELSE Returned(result)

LeafBranch(e) == UnionBranch(LeafOutcome(e, createEmptyResult).result)

\* the branches of the operands that are leaves with a non-empty result, in
\* operand order
LeafBranches(args) ==
  LET leaves == SelectSeq(args, LAMBDA e :
                  IsLeaf(e) /\ ~EmptyOnAll(LeafBranch(e)))
  IN [k \in 1..Len(leaves) |-> LeafBranch(leaves[k])]

\* no leaf of the tree makes a handler throw
RECURSIVE Quiet(_)
Quiet(e) ==
  IF IsLeaf(e) THEN ~LeafOutcome(e, createEmptyResult).threw
  ELSE \A k \in 1..Len(e.args) : Quiet(e.args[k])

\* the members printed in alternative alt
PrintedNames(alt) == { alt[k].localName : k \in 1..Len(alt) }

\* the read-only names and nested children of the merged result of a message
MergedReadOnly ==
  UNION { Elements(results[k].readOnlyFields) : k \in 1..Len(results) }
MergedChildren(parent) ==
  UNION { Elements(results[k].nestedConstraints[parent]) :
            k \in { j \in 1..Len(results) :
                      parent \in DOMAIN results[j].nestedConstraints } }
ChildrenIn(map, parent) ==
  IF parent \in DOMAIN map THEN Elements(map[parent]) ELSE {}

FieldMembers == { m \in Elements(message.members) : m.kind = "field" }

(***************************************************************************)
(* Properties.                                                             *)
(***************************************************************************)
\* C1: in every result parseCELExpression returns, and in every branch of its
\* unionGroups, no field name is both an element of readOnlyFields and a key
\* of literalFields.
C1_ReadOnlyAndLiteralDisjoint ==
  \A k \in 1..Len(results) :
    /\ Exclusive(results[k])
    /\ \A j \in 1..Len(results[k].unionGroups) :
         Exclusive(results[k].unionGroups[j])

\* C2: a returned result with a non-empty errors list has exactly one error
\* and nothing in readOnlyFields, literalFields, nestedConstraints,
\* unionGroups and unsupportedFields.
C2_FailedAnalysisLeavesNothing ==
  \A k \in 1..Len(results) :
    results[k].errors # <<>> =>
      /\ Len(results[k].errors) = 1
      /\ EmptyOnAll(results[k])
      /\ results[k].unionGroups = <<>>
      /\ results[k].unsupportedFields = <<>>

\* the generator went through the union case, the standard case
InUnionCase == pc \in {"union", "done"} /\ ~aliased /\ Len(unionGroups) > 0
StandardDone == pc = "done" /\ ~aliased /\ Len(unionGroups) = 0

\* C3: with union groups, both generators print one alternative per branch,
\* in branch order, and a field member is in alternative j exactly if its name
\* is neither in the merged readOnlyFields nor in those of branch j.
C3_OneAlternativePerBranch ==
  InUnionCase =>
    /\ Len(printed) = i - 1
    /\ pc = "done" => Len(printed) = Len(unionGroups)
    /\ \A j \in 1..Len(printed) : \A m \in FieldMembers :
         m.localName \in PrintedNames(printed[j]) <=>
           /\ m.localName \notin MergedReadOnly
           /\ m.localName \notin Elements(unionGroups[j].readOnlyFields)

\* C3 happens: a field left out of one alternative because of that branch's
\* own read-only fields is printed in another alternative
C3_Witness ==
  /\ InUnionCase
  /\ pc = "done"
  /\ \E j1, j2 \in 1..Len(printed) : \E m \in FieldMembers :
       /\ m.localName \in Elements(unionGroups[j1].readOnlyFields)
       /\ m.localName \notin PrintedNames(printed[j1])
       /\ m.localName \in PrintedNames(printed[j2])

\* C4: the nested exclusion of a field in alternative j is the union of the
\* merged nestedConstraints of the message and those of branch j for it.
C4_NestedExclusionPerBranch ==
  InUnionCase =>
    \A j \in 1..Len(printed) : \A k \in 1..Len(printed[j]) :
      printed[j][k].kind = "field" =>
        Elements(printed[j][k].omit) =
          MergedChildren(printed[j][k].localName)
            \cup ChildrenIn(unionGroups[j].nestedConstraints,
                            printed[j][k].localName)

Direct(scope) ==
  <<scope.readOnlyFields, scope.literalFields, scope.nestedConstraints>>

\* C6: from the visit of a disjunction node to the return of its handleOr,
\* no step changes readOnlyFields, literalFields or nestedConstraints of the
\* result it is visited into: not the steps of handleOr, for which that result
\* is the innermost scope, and not the steps inside an operand, for which it
\* is an enclosing scope.
C6_DisjunctionLeavesDirectFields ==
  [][ \A k \in 1..Len(scopes) :
        ( /\ pc = "visit"
          /\ pc' = "visit"
          /\ k <= Len(scopes')
          /\ k < Len(scopes) \/ Running("handleOr") \/ Visiting("_||_") )
        => Direct(scopes'[k]) = Direct(scopes[k]) ]_vars

\* C6 happens: handleOr has analysed its operands and is about to push their
\* branches to a result that holds direct facts
C6_Witness ==
  /\ Running("handleOr")
  /\ ~Top1(stack).inBranch
  /\ Top1(stack).idx > Len(Top1(stack).args)
  /\ Top1(stack).branches # <<>>
  /\ ~EmptyOnAll(Top1(scopes))

\* C7: the unionGroups a disjunction of leaves produces are the branches of
\* its operands whose result is not empty on all three fields, in operand
\* order, repeated ones included; and no branch held anywhere, in a scope, in
\* the branches of a running handleOr or in a returned result, is empty on all
\* three fields.
C7_BranchesAreTheNonEmptyOperands ==
  /\ \A k \in 1..Len(scopes) : \A j \in 1..Len(scopes[k].unionGroups) :
       ~EmptyOnAll(scopes[k].unionGroups[j])
  /\ \A k \in 1..Len(stack) :
       stack[k].fn = "handleOr" =>
         \A j \in 1..Len(stack[k].branches) :
           ~EmptyOnAll(stack[k].branches[j])
  /\ \A k \in 1..Len(results) : \A j \in 1..Len(results[k].unionGroups) :
       ~EmptyOnAll(results[k].unionGroups[j])
  /\ (Analysed /\ IsOr(Root) /\ Quiet(Root)
        /\ \A k \in 1..Len(Root.args) : IsLeaf(Root.args[k]))
     => results[1].unionGroups = LeafBranches(Root.args)

\* C7 happens: a disjunction with an empty operand between two operands of
\* the same non-empty branch returned both copies and nothing else
C7_Witness ==
  /\ Analysed
  /\ IsOr(Root)
  /\ Len(Root.args) = 3
  /\ EmptyOnAll(LeafBranch(Root.args[2]))
  /\ Len(results[1].unionGroups) = 2
  /\ results[1].unionGroups[1] = results[1].unionGroups[2]

\* the result of visiting leaves, one after the other, into one result
RECURSIVE LeavesInto(_, _)
LeavesInto(args, result) ==
  IF args = <<>> THEN result
  ELSE LeavesInto(Tail(args), LeafOutcome(Head(args), result).result)

\* a leaf, or an operator over leaves
Shallow(e) == IsLeaf(e) \/ \A k \in 1..Len(e.args) : IsLeaf(e.args[k])

\* what an operand of a conjunction gives the enclosing result: a leaf its
\* fact, a conjunction of leaves their facts, a disjunction of leaves its
\* branches
OperandInto(e, result) ==
  IF IsLeaf(e) THEN LeafOutcome(e, result).result
  ELSE IF IsAnd(e) THEN LeavesInto(e.args, result)
  ELSE [result EXCEPT !.unionGroups = @ \o LeafBranches(e.args)]

RECURSIVE OperandsInto(_, _)
OperandsInto(args, result) ==
  IF args = <<>> THEN result
  ELSE OperandsInto(Tail(args), OperandInto(Head(args), result))

\* C8: a conjunction gives the enclosing result what its operands give it,
\* one after the other from left to right: the direct facts of all operands
\* accumulate in the one result, and the branches of the operands that are
\* disjunctions are appended to the one unionGroups in operand order.
C8_ConjunctionKeepsTheScope ==
  (Analysed /\ IsAnd(Root) /\ Quiet(Root)
     /\ \A k \in 1..Len(Root.args) : Shallow(Root.args[k]))
  => results[1] =
       deduplicateResult(OperandsInto(Root.args, createEmptyResult))

\* C8 happens: a conjunction of two disjunctions returned the two branches
\* of the first followed by the two different branches of the second
C8_Witness ==
  /\ Analysed
  /\ IsAnd(Root)
  /\ Len(Root.args) = 2
  /\ IsOr(Root.args[1])
  /\ IsOr(Root.args[2])
  /\ Len(results[1].unionGroups) = 4
  /\ results[1].unionGroups[1] # results[1].unionGroups[3]
  /\ results[1].unionGroups[2] # results[1].unionGroups[4]

\* the operands are leaves whose branch is not empty
AllNonEmptyLeaves(args) ==
  \A k \in 1..Len(args) :
    /\ IsLeaf(args[k])
    /\ ~LeafOutcome(args[k], createEmptyResult).threw
    /\ ~EmptyOnAll(LeafBranch(args[k]))

\* C9: a disjunction of three operands that each yield a constraint returns
\* three branches, the branch of each operand at the place of the operand,
\* and leaves readOnlyFields empty.
C9_ThreeOperandsThreeBranches ==
  (Analysed /\ IsOr(Root) /\ Len(Root.args) = 3
     /\ AllNonEmptyLeaves(Root.args))
  => /\ Len(results[1].unionGroups) = 3
     /\ \A k \in 1..3 : results[1].unionGroups[k] = LeafBranch(Root.args[k])
     /\ results[1].readOnlyFields = <<>>

\* C9 happens: three different operands, three branches
C9_Witness ==
  /\ Analysed
  /\ IsOr(Root)
  /\ Len(Root.args) = 3
  /\ AllNonEmptyLeaves(Root.args)
  /\ Cardinality(Elements(results[1].unionGroups)) = 3

\* C10: a disjunction that is an operand of a disjunction gives the outer
\* disjunction no branch: of the operands of the outer one, the leaves alone
\* have a branch in the returned unionGroups.
C10_InnerDisjunctionGivesNoBranch ==
  (Analysed /\ IsOr(Root) /\ Quiet(Root)
     /\ (\A k \in 1..Len(Root.args) :
           (IsLeaf(Root.args[k])
              \/ (IsOr(Root.args[k]) /\ Shallow(Root.args[k]))))
     /\ (\E k \in 1..Len(Root.args) : IsOr(Root.args[k])))
  => results[1].unionGroups = LeafBranches(Root.args)

\* C10 happens: OR(A, OR(B, C)) with three operands that yield a constraint
\* returned the one branch of A
C10_Witness ==
  /\ Analysed
  /\ IsOr(Root)
  /\ Len(Root.args) = 2
  /\ IsLeaf(Root.args[1])
  /\ IsOr(Root.args[2])
  /\ AllNonEmptyLeaves(Root.args[2].args)
  /\ results[1].unionGroups = <<LeafBranch(Root.args[1])>>

\* a constant of kind string, int, uint, double or bool
IsConstant(e) ==
  /\ e.case = "constExpr"
  /\ DOMAIN e \cap {"stringValue", "int64Value", "uint64Value",
                    "doubleValue", "boolValue"} # {}

\* the value a constant denotes, numbers of every kind as the one number
ValueOf(c) ==
  IF "stringValue" \in DOMAIN c THEN [string |-> c.stringValue]
  ELSE IF "int64Value" \in DOMAIN c THEN [number |-> c.int64Value]
  ELSE IF "uint64Value" \in DOMAIN c THEN [number |-> c.uint64Value]
  ELSE IF "doubleValue" \in DOMAIN c THEN [number |-> c.doubleValue]
  ELSE [boolean |-> c.boolValue]

\* e is this.f
IsTop(e) == e.case = "selectExpr" /\ e.operand = this

\* e is the equality of this.f and a constant, in this order
IsTopEquality(e) ==
  /\ e.case = "callExpr"
  /\ e.function = "_==_"
  /\ Len(e.args) = 2
  /\ IsTop(e.args[1])
  /\ IsConstant(e.args[2])

\* C11: the analysis of this.f == c, c a constant of kind string, int, uint,
\* double or bool, returns literalFields = {camel(f): value of c} and nothing
\* else, the empty string, zero and false included; integer and double
\* constants of the same value give the same number.
C11_EqualityRecordsTheConstant ==
  (Analysed /\ IsTopEquality(Root))
  => results[1] =
       [createEmptyResult EXCEPT !.literalFields =
          (snakeToCamel(Root.args[1].field) :> ValueOf(Root.args[2]))]

\* a result without the expression text its errors quote: two different
\* expressions never have the same text
Outcome(result) ==
  [result EXCEPT !.errors = [k \in DOMAIN @ |-> @[k].message]]

\* the message has the two rules of a pair and both analyses have returned
Compared ==
  /\ Len(message.cel) = 2
  /\ message.cel[1].kind = "tree"
  /\ message.cel[2].kind = "tree"
  /\ Len(results) = 2
First == message.cel[1].expr
Second == message.cel[2].expr

IsNegation(e) == e.case = "callExpr" /\ e.function = "!_" /\ Len(e.args) = 1
IsHas(e) == e.case = "callExpr" /\ e.function = "has" /\ Len(e.args) = 1

\* the two rules are !has(p) and !p for one path p
NegationPair ==
  /\ IsNegation(First)
  /\ IsNegation(Second)
  /\ IsHas(First.args[1])
  /\ First.args[1].args[1] = Second.args[1]
  /\ Second.args[1] \in Paths

\* C12: for every path p rooted at this, !has(p) and !p return the same
\* result (the same fields, and the same error if the analysis threw); for a
\* path this.f it is readOnlyFields = [camel(f)] and nothing else.
C12_PresenceNegationForms ==
  (Compared /\ NegationPair)
  => /\ Outcome(results[1]) = Outcome(results[2])
     /\ IsTop(Second.args[1]) =>
          results[2] = [createEmptyResult EXCEPT !.readOnlyFields =
                          <<snakeToCamel(Second.args[1].field)>>]

\* C12 happens: the two forms on a nested path returned the same non-empty
\* result
C12_Witness ==
  /\ Compared
  /\ NegationPair
  /\ ~IsTop(Second.args[1])
  /\ results[1] = results[2]
  /\ DOMAIN results[1].nestedConstraints # {}

IsEquality(e) == e.case = "callExpr" /\ e.function = "_==_" /\ Len(e.args) = 2

\* e2 is the equality e1 with its operands exchanged
Reversed(e1, e2) ==
  /\ IsEquality(e1)
  /\ IsEquality(e2)
  /\ e2.args = <<e1.args[2], e1.args[1]>>

\* the two rules are x == y and y == x, or both follow the same assertion
\* in a conjunction
EqualityPair ==
  \/ Reversed(First, Second)
  \/ /\ IsAnd(First)
     /\ IsAnd(Second)
     /\ Len(First.args) = 2
     /\ Len(Second.args) = 2
     /\ First.args[1] = Second.args[1]
     /\ Reversed(First.args[2], Second.args[2])

\* C13: x == y and y == x, visited into an empty result or into the result
\* an earlier assertion has written to, leave the same result: the same
\* fields, and the same error if the visit threw.
C13_EqualityEitherWayRound ==
  (Compared /\ EqualityPair) => Outcome(results[1]) = Outcome(results[2])

\* C13 happens: field == constant and constant == field after an assertion
\* on the same field both returned the result with the literal replaced
C13_Witness ==
  /\ Compared
  /\ IsAnd(First)
  /\ EqualityPair
  /\ IsTop(First.args[2].args[1])
  /\ IsConstant(Second.args[2].args[1])
  /\ results[1] = results[2]
  /\ results[1].errors = <<>>
  /\ LET name == snakeToCamel(First.args[2].args[1].field)
     IN /\ name \in DOMAIN results[1].literalFields
        /\ results[1].literalFields[name] = ValueOf(Second.args[2].args[1])
        /\ LeafOutcome(First.args[1], createEmptyResult).result.literalFields
             # results[1].literalFields

\* the names of the path a chain of selections on this writes, as written
RECURSIVE Segments(_)
Segments(e) ==
  IF e.case = "selectExpr" THEN Append(Segments(e.operand), e.field)
  ELSE <<>>

\* e asserts on a path: !has(p), !p, p == c or c == p; its path
IsPathAssertion(e) ==
  \/ IsNegation(e) /\ (e.args[1] \in Paths
                         \/ (IsHas(e.args[1]) /\ e.args[1].args[1] \in Paths))
  \/ IsEquality(e) /\ e.args[1] \in Paths /\ IsConstant(e.args[2])
  \/ IsEquality(e) /\ e.args[2] \in Paths /\ IsConstant(e.args[1])
PathOf(e) ==
  IF IsNegation(e)
  THEN (IF IsHas(e.args[1]) THEN e.args[1].args[1] ELSE e.args[1])
  ELSE (IF e.args[1] \in Paths THEN e.args[1] ELSE e.args[2])

\* C14: a presence negation or an equality with a constant on a path of two
\* or more segments [p, c, ...] returns nestedConstraints = {camel(p):
\* [camel(c)]} and nothing else: no further segment, no literal value, no
\* read-only name, no error.
C14_NestedPathRecordsTheChild ==
  (Analysed /\ IsPathAssertion(Root) /\ Len(Segments(PathOf(Root))) >= 2)
  => results[1] =
       [createEmptyResult EXCEPT !.nestedConstraints =
          (snakeToCamel(Segments(PathOf(Root))[1])
             :> <<snakeToCamel(Segments(PathOf(Root))[2])>>)]

\* the field names written in an expression
RECURSIVE Written(_)
Written(e) ==
  IF e.case = "selectExpr" THEN {e.field} \cup Written(e.operand)
  ELSE IF e.case = "callExpr"
  THEN UNION { Written(e.args[k]) : k \in 1..Len(e.args) }
  ELSE {}

\* the field names a scope or a branch stores
Stored(scope) ==
  Elements(scope.readOnlyFields)
    \cup DOMAIN scope.literalFields
    \cup DOMAIN scope.nestedConstraints
    \cup UNION { Elements(scope.nestedConstraints[parent]) :
                   parent \in DOMAIN scope.nestedConstraints }
StoredAnywhere(result) ==
  Stored(result)
    \cup UNION { Stored(result.unionGroups[j]) :
                   j \in 1..Len(result.unionGroups) }

\* C15: every name a returned result stores, at top level or in a branch,
\* as a read-only name, a literal key, a parent or a child, is the camel-cased
\* form of a name written in the expression, and holds no underscore.
C15_StoredNamesAreCamelCased ==
  Analysed =>
    \A name \in StoredAnywhere(results[1]) :
      /\ \E written \in Written(Root) : name = snakeToCamel(written)
      /\ ~includes(name, UNDERSCORE)

\* C15 happens: names written with underscores are stored as a read-only
\* name, as a literal key, and as parent and child in a branch
C15_Witness ==
  /\ Analysed
  /\ \E name \in Written(Root) :
       /\ includes(name, UNDERSCORE)
       /\ snakeToCamel(name) \in Elements(results[1].readOnlyFields)
  /\ \E name \in Written(Root) :
       /\ includes(name, UNDERSCORE)
       /\ snakeToCamel(name) \in DOMAIN results[1].literalFields
  /\ \E j \in 1..Len(results[1].unionGroups) :
       \E parent, child \in Written(Root) :
         /\ includes(parent, UNDERSCORE)
         /\ includes(child, UNDERSCORE)
         /\ snakeToCamel(parent)
              \in DOMAIN results[1].unionGroups[j].nestedConstraints
         /\ snakeToCamel(child) \in
              Elements(results[1].unionGroups[j].nestedConstraints[
                         snakeToCamel(parent)])

\* e is a literal assertion on this.f, the field on either side
IsLiteralAssertion(e) ==
  /\ IsEquality(e)
  /\ \/ IsTop(e.args[1]) /\ IsConstant(e.args[2])
     \/ IsTop(e.args[2]) /\ IsConstant(e.args[1])
AssertedField(e) ==
  IF IsTop(e.args[1]) THEN e.args[1].field ELSE e.args[2].field
AssertedValue(e) ==
  IF IsTop(e.args[1]) THEN ValueOf(e.args[2]) ELSE ValueOf(e.args[1])

\* a conjunction of literal assertions on one field
SameFieldConjunction(e) ==
  /\ IsAnd(e)
  /\ \A k \in 1..Len(e.args) :
       /\ IsLiteralAssertion(e.args[k])
       /\ AssertedField(e.args[k]) = AssertedField(e.args[1])

\* C16: a conjunction of literal assertions on one top-level field returns
\* literalFields with that one field, its value the one of the last
\* operand, and no error or anything else.
C16_LastLiteralWins ==
  (Analysed /\ SameFieldConjunction(Root))
  => results[1] =
       [createEmptyResult EXCEPT !.literalFields =
          (snakeToCamel(AssertedField(Root.args[1]))
             :> AssertedValue(Root.args[Len(Root.args)]))]

\* C16 happens: three assertions of three different values returned the
\* third value
C16_Witness ==
  /\ Analysed
  /\ SameFieldConjunction(Root)
  /\ Len(Root.args) = 3
  /\ Cardinality({ AssertedValue(Root.args[k]) : k \in 1..3 }) = 3
  /\ results[1].literalFields[snakeToCamel(AssertedField(Root.args[1]))]
       = AssertedValue(Root.args[3])

\* list holds every element of raw once, in the order in which the elements
\* come first in raw
FirstOccurrences(list, raw) ==
  /\ Elements(list) = Elements(raw)
  /\ Cardinality(Elements(list)) = Len(list)
  /\ \A j1, j2 \in 1..Len(list) :
       j1 < j2 =>
         (CHOOSE k \in 1..Len(raw) :
            raw[k] = list[j1] /\ \A h \in 1..(k - 1) : raw[h] # list[j1])
         < (CHOOSE k \in 1..Len(raw) :
              raw[k] = list[j2] /\ \A h \in 1..(k - 1) : raw[h] # list[j2])

\* what the operands of a conjunction of leaves wrote, before normalisation
Raw == LeavesInto(Root.args, createEmptyResult)

\* C17: a result returned without error holds no read-only name twice and
\* under no parent a child twice; for a conjunction of assertions the names
\* and the children of each parent are in the order in which the operands
\* first name them.
C17_ReturnedListsHaveNoRepeats ==
  (Analysed /\ results[1].errors = <<>>)
  => /\ Cardinality(Elements(results[1].readOnlyFields))
          = Len(results[1].readOnlyFields)
     /\ \A parent \in DOMAIN results[1].nestedConstraints :
          Cardinality(Elements(results[1].nestedConstraints[parent]))
            = Len(results[1].nestedConstraints[parent])
     /\ (IsAnd(Root) /\ \A k \in 1..Len(Root.args) : IsLeaf(Root.args[k]))
        => /\ FirstOccurrences(results[1].readOnlyFields, Raw.readOnlyFields)
           /\ DOMAIN results[1].nestedConstraints
                = DOMAIN Raw.nestedConstraints
           /\ \A parent \in DOMAIN Raw.nestedConstraints :
                FirstOccurrences(results[1].nestedConstraints[parent],
                                 Raw.nestedConstraints[parent])

\* C17 happens: a read-only name and a child asserted again after another
\* one are returned once, before the other one
C17_Witness ==
  /\ Analysed
  /\ results[1].errors = <<>>
  /\ IsAnd(Root)
  /\ Len(Root.args) = 3
  /\ Root.args[1] = Root.args[3]
  /\ \/ /\ Len(Raw.readOnlyFields) = 3
        /\ Len(results[1].readOnlyFields) = 2
        /\ results[1].readOnlyFields[1] = Raw.readOnlyFields[3]
     \/ \E parent \in DOMAIN Raw.nestedConstraints :
          /\ Len(Raw.nestedConstraints[parent]) = 3
          /\ Len(results[1].nestedConstraints[parent]) = 2
          /\ results[1].nestedConstraints[parent][1]
               = Raw.nestedConstraints[parent][3]

\* e is a chain of selections on this
RECURSIVE IsPath(_)
IsPath(e) ==
  /\ e.case = "selectExpr"
  /\ (e.operand = this \/ IsPath(e.operand))

\* a shape the analysis has no meaning for: a node that is no call, a call
\* of another function than !_, _==_, _&&_ and _||_, an equality that does
\* not have a path rooted at this on one side and a constant of kind string,
\* int, uint, double or bool on the other
Unsupported(e) ==
  IF e.case # "callExpr" THEN TRUE
  ELSE IF e.function \notin {"!_", "_==_", "_&&_", "_||_"} THEN TRUE
  ELSE IF e.function = "_==_"
  THEN ~ /\ Len(e.args) = 2
         /\ \/ IsPath(e.args[1]) /\ IsConstant(e.args[2])
            \/ IsPath(e.args[2]) /\ IsConstant(e.args[1])
  ELSE FALSE

Supported(args) == SelectSeq(args, LAMBDA e : ~Unsupported(e))

\* C18: unsupportedFields is empty in every result, returned or being
\* written; the analysis of an unsupported shape returns the empty result,
\* without an error; and an operator over assertions returns what it returns
\* without its unsupported operands.
C18_UnsupportedShapesLeaveNothing ==
  /\ \A k \in 1..Len(results) : results[k].unsupportedFields = <<>>
  /\ \A k \in 1..Len(scopes) : scopes[k].unsupportedFields = <<>>
  /\ (Analysed /\ Unsupported(Root)) => results[1] = createEmptyResult
  /\ (Analysed /\ ~IsLeaf(Root) /\ Quiet(Root)
        /\ \A k \in 1..Len(Root.args) : IsLeaf(Root.args[k]))
     => results[1] =
          IF IsAnd(Root)
          THEN deduplicateResult(
                 LeavesInto(Supported(Root.args), createEmptyResult))
          ELSE [createEmptyResult EXCEPT
                  !.unionGroups = LeafBranches(Supported(Root.args))]

\* C18 happens: a conjunction with an unsupported operand among assertions
\* returned the facts of the assertions and no error
C18_Witness ==
  /\ Analysed
  /\ IsAnd(Root)
  /\ \E k \in 1..Len(Root.args) : Unsupported(Root.args[k])
  /\ \E k \in 1..Len(Root.args) :
       IsLeaf(Root.args[k]) /\ ~Unsupported(Root.args[k])
  /\ ~EmptyOnAll(results[1])
  /\ results[1].errors = <<>>
  /\ results[1].unsupportedFields = <<>>

\* the results of the expressions whose analysis did not fail
Remaining == SelectSeq(results, LAMBDA result : result.errors = <<>>)

\* a generator has called the three getters and has printed nothing yet
Gathered == generator # "none" /\ ~aliased /\ printed = <<>>

\* C19: when the analysis of one of several expressions of a message fails,
\* the readOnlyFields, nestedConstraints and unionGroups the generator works
\* with are those of the other expressions.
C19_FailedExpressionIsAbsent ==
  (Gathered /\ Len(results) >= 2 /\ Len(Remaining) < Len(results))
  => /\ readOnlyFields = getReadOnlyFields(Remaining)
     /\ nestedConstraints = getNestedReadOnlyFields(Remaining)
     /\ unionGroups = getUnionGroups(Remaining)

\* the branches of the results of all expressions, in expression order
AllBranches == Concat([k \in 1..Len(results) |-> results[k].unionGroups])

\* C21: when several expressions, none with a repeated branch of its own,
\* give their branches to a message, the unionGroups a generator works with
\* are those branches in expression order, each identical branch kept once.
C21_MergedBranchesAreUnique ==
  (Gathered /\ Len(results) >= 2
     /\ \A k \in 1..Len(results) :
          Cardinality(Elements(results[k].unionGroups))
            = Len(results[k].unionGroups))
  => FirstOccurrences(unionGroups, AllBranches)

\* C22: while and after a generator prints its alternatives, the
\* nestedConstraints and the unionGroups it gathered are what the getters
\* returned: the keys, the children of every parent, and every branch.
C22_ConsumerLeavesTheMergedResult ==
  (generator # "none" /\ ~aliased)
  => /\ nestedConstraints = getNestedReadOnlyFields(results)
     /\ unionGroups = getUnionGroups(results)
     /\ readOnlyFields = getReadOnlyFields(results)

\* a list without a repeated element
NoRepeats(list) == Cardinality(Elements(list)) = Len(list)

\* C23: in every branch of the unionGroups of a returned result,
\* readOnlyFields holds no name twice and no parent of nestedConstraints
\* holds a child twice.
C23_BranchListsHaveNoRepeats ==
  \A k \in 1..Len(results) : \A j \in 1..Len(results[k].unionGroups) :
    /\ NoRepeats(results[k].unionGroups[j].readOnlyFields)
    /\ \A parent \in DOMAIN results[k].unionGroups[j].nestedConstraints :
         NoRepeats(results[k].unionGroups[j].nestedConstraints[parent])

\* the names of a path joined by dots
RECURSIVE JoinDots(_)
JoinDots(names) ==
  IF Len(names) = 1 THEN names[1]
  ELSE JoinDots(SubSeq(names, 1, Len(names) - 1))
         \o <<DOT>> \o names[Len(names)]

\* a chain of one or more selections whose innermost operand is the
\* identifier this
RECURSIVE RootedAtThis(_)
RootedAtThis(e) ==
  /\ e.case = "selectExpr"
  /\ \/ e.operand.case = "identExpr" /\ e.operand.name = <<"t","h","i","s">>
     \/ RootedAtThis(e.operand)

\* the nodes a negation or an equality hands to extractFieldPath
Resolved(e) ==
  IF IsNegation(e)
  THEN (IF IsHas(e.args[1]) THEN {e.args[1].args[1]}
        ELSE IF e.args[1].case \in {"selectExpr", "identExpr"}
        THEN {e.args[1]} ELSE {})
  ELSE IF IsEquality(e)
  THEN { e.args[k] : k \in { j \in 1..2 : IsConstant(e.args[3 - j]) } }
  ELSE {}

\* C24: for every node an analysed assertion resolves, extractFieldPath
\* gives the selected names, innermost first, joined by dots, if the node is
\* a chain of selections on the identifier this, and null otherwise; and a
\* negation of a node that is no such chain returns the empty result.
C24_PathsAreSelectionsOnThis ==
  Analysed =>
    /\ \A node \in Resolved(Root) :
         extractFieldPath(node) =
           IF RootedAtThis(node) THEN JoinDots(Segments(node)) ELSE null
    /\ (IsNegation(Root) /\ Resolved(Root) # {}
          /\ \A node \in Resolved(Root) : ~RootedAtThis(node))
       => results[1] = createEmptyResult
    /\ (IsNegation(Root) /\ \E node \in Resolved(Root) :
          RootedAtThis(node) /\ Len(Segments(node)) = 1)
       => results[1].readOnlyFields # <<>>

\* C24 happens: a chain of three selections on this was resolved, and a
\* chain on another identifier was not
C24_Witness ==
  /\ Analysed
  /\ \/ \E node \in Resolved(Root) :
          /\ RootedAtThis(node)
          /\ Len(Segments(node)) = 3
          /\ DOMAIN results[1].nestedConstraints # {}
     \/ \E node \in Resolved(Root) :
          /\ ~RootedAtThis(node)
          /\ Len(Segments(node)) = 2
          /\ results[1] = createEmptyResult

\* a negation whose operand is neither has of one path rooted at this nor
\* such a path itself
OtherNegation(e) ==
  /\ e.case = "callExpr"
  /\ e.function = "!_"
  /\ IF Len(e.args) = 0 THEN TRUE
     ELSE /\ ~RootedAtThis(e.args[1])
          /\ IF e.args[1].case = "callExpr"
             THEN ~(/\ e.args[1].function = "has"
                    /\ Len(e.args[1].args) = 1
                    /\ RootedAtThis(e.args[1].args[1]))
             ELSE TRUE

\* C25: the visit of a negation whose operand is anything but a presence
\* check of one resolvable path, or a resolvable path, returns with every
\* scope as it was and without a visit of the operand; analysed alone, such
\* a negation gives the empty result.
C25_OtherNegationsLeaveTheResult ==
  /\ [](Analysed /\ OtherNegation(Root) => results[1] = createEmptyResult)
  /\ [][ (Visiting("!_") /\ OtherNegation(Top1(stack).expr))
         => /\ scopes' = scopes
            /\ stack' = Pop(stack)
            /\ pc' = "visit" ]_vars

\* C25 happens: the negation of a conjunction of two assertions is visited
\* into a result that holds a field, and beside it nothing of the
\* conjunction is returned
C25_Witness ==
  /\ Analysed
  /\ IsAnd(Root)
  /\ OtherNegation(Root.args[1])
  /\ IsAnd(Root.args[1].args[1])
  /\ results[1].readOnlyFields = <<<<"b">>>>
  /\ results[1].literalFields = EmptyMap

\* a branch that carries literalFields and nothing else
LiteralOnly(group) ==
  /\ group.readOnlyFields = <<>>
  /\ DOMAIN group.nestedConstraints = {}
  /\ DOMAIN group.literalFields # {}

\* C26: a generator prints one alternative for every branch it gathered,
\* and the alternative of a branch that carries only literalFields is the
\* member list with the omissions of the message level and no other: the
\* members outside the merged readOnlyFields, each without the children the
\* merged nestedConstraints name for it.
C26_LiteralFieldsLeaveTheShape ==
  (generator # "none" /\ ~aliased /\ pc = "done" /\ unionGroups # <<>>)
  => /\ Len(printed) = Len(unionGroups)
     /\ \A j \in 1..Len(unionGroups) :
          LiteralOnly(unionGroups[j])
          => printed[j] = printMembers(message.members,
                                       getReadOnlyFields(results),
                                       getNestedReadOnlyFields(results))

\* no parent of the map has an empty list of children
NoEmptyParent(nested) == \A parent \in DOMAIN nested : nested[parent] # <<>>

\* no parent of a result or of any branch of its unionGroups has an empty
\* list of children
NoEmptyParentIn(result) ==
  /\ NoEmptyParent(result.nestedConstraints)
  /\ \A j \in 1..Len(result.unionGroups) :
       NoEmptyParent(result.unionGroups[j].nestedConstraints)

\* C27: between the steps of an analysis and the rounds of a generator, no
\* nestedConstraints holds a parent with an empty list of children: not
\* those of a scope of the traversal or of a returned result, not those of a
\* branch (kept by handleOr, in the unionGroups of a scope or a result, or
\* gathered by a generator), and not the generator's own or the map it
\* merges for the branch of the next round.
C27_NoParentWithoutChildren ==
  /\ \A k \in 1..Len(scopes) : NoEmptyParentIn(scopes[k])
  /\ \A k \in 1..Len(results) : NoEmptyParentIn(results[k])
  /\ \A k \in 1..Len(stack) :
       stack[k].fn = "handleOr"
       => \A j \in 1..Len(stack[k].branches) :
            NoEmptyParent(stack[k].branches[j].nestedConstraints)
  /\ NoEmptyParent(nestedConstraints)
  /\ \A j \in 1..Len(unionGroups) :
       /\ NoEmptyParent(unionGroups[j].nestedConstraints)
       /\ NoEmptyParent(mergedNestedConstraints(nestedConstraints,
                                                unionGroups[j]))

\* C27 happens: a generator is about to merge a branch that brings a parent
\* the message level does not have
C27_Witness ==
  /\ pc = "union"
  /\ i <= Len(unionGroups)
  /\ DOMAIN unionGroups[i].nestedConstraints \ DOMAIN nestedConstraints # {}

\* C28: the analysis of a tree the parser accepted ends without an error:
\* the catch block is entered for an expression the parser rejected and for
\* no other, no scope of a traversal holds an error, so handleOr copies
\* none, and the result returned for a tree has an empty errors list.
C28_AcceptedTreesGiveNoError ==
  /\ pc = "catch" => message.cel[rule].kind = "syntaxError"
  /\ \A k \in 1..Len(scopes) : scopes[k].errors = <<>>
  /\ Analysed => results[1].errors = <<>>

\* the direct facts of the scope a node is visited into: those of the
\* leaves reached from the node through conjunctions alone, from left to
\* right
RECURSIVE FactsInto(_, _), FactsOfAll(_, _)
FactsInto(e, result) ==
  IF IsLeaf(e) THEN LeafOutcome(e, result).result
  ELSE IF IsAnd(e) THEN FactsOfAll(e.args, result)
  ELSE result
FactsOfAll(args, result) ==
  IF args = <<>> THEN result
  ELSE FactsOfAll(Tail(args), FactsInto(Head(args), result))

\* the branches of the disjunctions reached from a node through
\* conjunctions alone, from left to right: of each, the direct facts of
\* every operand that has any
RECURSIVE BranchesBelow(_)
BranchesBelow(e) ==
  IF IsLeaf(e) THEN <<>>
  ELSE IF IsAnd(e)
  THEN Concat([k \in 1..Len(e.args) |-> BranchesBelow(e.args[k])])
  ELSE LET own == [k \in 1..Len(e.args) |->
                     UnionBranch(FactsInto(e.args[k], createEmptyResult))]
       IN SelectSeq(own, LAMBDA branch : ~EmptyOnAll(branch))

\* C29: the unionGroups of the result of a traversal that returned are the
\* branches of the disjunctions reached from the root through conjunctions
\* alone, from left to right, one for every operand with a direct fact in
\* its own scope and holding those facts only; a disjunction below an
\* operand of a disjunction gives none.
C29_BranchesOfReachableDisjunctions ==
  (Analysed /\ results[1].errors = <<>>)
  => results[1].unionGroups = BranchesBelow(Root)

\* C29 happens: a disjunction two conjunctions below the root gave its two
\* branches to the result of the root
C29_Witness ==
  /\ Analysed
  /\ results[1].errors = <<>>
  /\ IsAnd(Root)
  /\ IsAnd(Root.args[1])
  /\ IsOr(Root.args[1].args[2])
  /\ Len(results[1].unionGroups) = 2
  /\ DOMAIN results[1].literalFields # {}

\* later holds every name, literal key, nested child and branch of earlier,
\* the branches as they were and at their places
Grown(earlier, later) ==
  /\ Elements(earlier.readOnlyFields) \subseteq Elements(later.readOnlyFields)
  /\ DOMAIN earlier.literalFields \subseteq DOMAIN later.literalFields
  /\ \A parent \in DOMAIN earlier.nestedConstraints :
       /\ parent \in DOMAIN later.nestedConstraints
       /\ Elements(earlier.nestedConstraints[parent])
            \subseteq Elements(later.nestedConstraints[parent])
  /\ Len(earlier.unionGroups) <= Len(later.unionGroups)
  /\ SubSeq(later.unionGroups, 1, Len(earlier.unionGroups))
       = earlier.unionGroups

\* C30: no step of a traversal takes from a result it is visiting into: in
\* every scope that is still there after the step, the names of
\* readOnlyFields, the keys of literalFields and the children of every
\* parent of nestedConstraints are kept, and unionGroups begins with the
\* branches it had, unchanged; and the result parseCELExpression returns,
\* from the traversal or from its catch block, keeps all of that too.
C30_TraversalOnlyAdds ==
  [][ /\ pc = "visit"
        => \A k \in 1..Len(scopes) :
             k <= Len(scopes') => Grown(scopes[k], scopes'[k])
      /\ (pc \in {"visit", "catch"} /\ Len(results') = Len(results) + 1)
        => Grown(scopes[1], results'[Len(results')]) ]_vars

\* C30 happens: handleOr is about to push its branches to the result of the
\* root, which holds the branches of an earlier disjunction
C30_Witness ==
  /\ Running("handleOr")
  /\ ~Top1(stack).inBranch
  /\ Top1(stack).idx > Len(Top1(stack).args)
  /\ Top1(stack).branches # <<>>
  /\ Len(scopes) = 1
  /\ scopes[1].unionGroups # <<>>

====
